---- MODULE Spec2Model ----
(***************************************************************************)
(* RustyFox: the simplex geometry (src/geometry/simplex.rs), the Jacobi    *)
(* polynomial (src/element/jacobi.rs) and the integration rule             *)
(* (src/element/element_traits.rs).                                        *)
(*                                                                         *)
(* The state is the object under use (obj), the last call made on it       *)
(* (call) and what that call produced (ret).  overflow_checks is the build *)
(* profile: Rust panics on integer overflow when it is on and wraps when   *)
(* it is off.                                                              *)
(***************************************************************************)
EXTENDS Integers, Sequences, FiniteSets, TLC

VARIABLES obj, call, ret, overflow_checks

vars == <<obj, call, ret, overflow_checks>>

(***************************************************************************)
(* Bounds of the model.                                                    *)
(***************************************************************************)
MaxDim == 3
MaxEmbed == 3
MaxQuery == 4
MaxIndex == 3
MaxRows == 2
MaxDegree == 3
MaxParam == 2
MaxXNum == 2
MaxXDen == 2
MaxRulePoints == 2
MaxValues == 3
MaxScalar == 2

(***************************************************************************)
(* Values returned by the calls: Result, Option, and a panic.              *)
(***************************************************************************)
Ok(v) == [tag |-> "Ok", val |-> v]
Err(m) == [tag |-> "Err", msg |-> m]
Some(v) == [tag |-> "Some", val |-> v]
None == [tag |-> "None"]
Value(v) == [tag |-> "Value", val |-> v]
Panic == [tag |-> "Panic"]
Unit == [tag |-> "Unit"]
NoObject == [type |-> "none"]

RECURSIVE gcd(_, _)
gcd(a, b) == IF b = 0 THEN a ELSE gcd(b, a % b)

multiply_and_divide(r, a, b) ==
    LET g == gcd(r, b) IN (r \div g) * (a \div (b \div g))

RECURSIVE binomial_loop(_, _, _, _)
binomial_loop(n, k, r, d) ==
    IF d > k THEN r
    ELSE binomial_loop(n - 1, k, multiply_and_divide(r, n, d), d + 1)

\* num::integer::binomial on usize
RECURSIVE binomial(_, _)
binomial(n, k) ==
    IF k > n THEN 0
    ELSE IF k > n - k THEN binomial(n, n - k)
    ELSE binomial_loop(n, k, 1, 1)

(***************************************************************************)
(* Simplex                                                                 *)
(***************************************************************************)
IncoherentMsg == "Incorherence in the points or the dimensions given to construct the Simplex."
OverDimensionMsg == "Requested connectivity dimensions are over the topological dimension of the simplex"
NotAvailableMsg == "Requested connectivity is not available"

\* a slice of n coordinates; the code never reads the coordinates themselves
Points(n) == [j \in 1..n |-> j]

\* the body is a TODO: nothing is stored in the map
compute_adjacency(self, element_dim, target_dim) == self

RECURSIVE adjacency_inner(_, _, _, _)
adjacency_inner(self, ied, ted, dim) ==
    IF ted >= dim THEN self
    ELSE adjacency_inner(compute_adjacency(self, ied, ted), ied, ted + 1, dim)

RECURSIVE adjacency_outer(_, _, _)
adjacency_outer(self, ied, dim) ==
    IF ied >= dim THEN self
    ELSE adjacency_outer(adjacency_inner(self, ied, 0, dim), ied + 1, dim)

Simplex_new(dim, embed_dim, pnts) ==
    IF embed_dim < dim \/ Len(pnts) # embed_dim * dim + 1
    THEN Err(IncoherentMsg)
    ELSE Ok(adjacency_outer([type |-> "Simplex",
                             dimension |-> dim,
                             embedding_dimension |-> embed_dim,
                             points |-> pnts,
                             connectivity |-> << >>], 0, dim))

get_dimension(self) == self.dimension

get_embedding_dimension(self) == self.embedding_dimension

get_coordinates(self) == self.points

\* counts the faces one dimension too low
get_number_of_elements_low(self, dimension) ==
    IF dimension > self.dimension THEN 0
    ELSE binomial(self.dimension + 1, dimension)

get_number_of_elements(self, dimension) ==
    IF dimension > self.dimension THEN 0
    ELSE binomial(self.dimension + 1, dimension + 1)

\* conn[lo..hi] of a Rust slice: panics when lo > hi or hi > len
slice_range(conn, lo, hi) ==
    IF lo > hi \/ hi > Len(conn) THEN Panic
    ELSE Ok([j \in 1..(hi - lo) |-> conn[lo + j]])

get_connectivity(self, target_dim, element_dim, element_index) ==
    IF target_dim > self.dimension \/ element_dim > self.dimension
    THEN Err(OverDimensionMsg)
    ELSE IF <<element_dim, target_dim>> \notin DOMAIN self.connectivity
    THEN Err(NotAvailableMsg)
    ELSE LET stride == self.connectivity[<<element_dim, target_dim>>][1]
             conn == self.connectivity[<<element_dim, target_dim>>][2]
         IN slice_range(conn, element_index * stride, element_index * (stride + 1))

SimplexNew(dim, embed_dim, npoints) ==
    /\ call' = [op |-> "Simplex::new", dim |-> dim, embed_dim |-> embed_dim,
                pnts |-> Points(npoints)]
    /\ ret' = Simplex_new(dim, embed_dim, Points(npoints))
    /\ obj' = IF ret'.tag = "Ok" THEN ret'.val ELSE NoObject
    /\ UNCHANGED overflow_checks

GetDimension ==
    /\ obj.type = "Simplex"
    /\ call' = [op |-> "get_dimension"]
    /\ ret' = Value(get_dimension(obj))
    /\ UNCHANGED <<obj, overflow_checks>>

GetEmbeddingDimension ==
    /\ obj.type = "Simplex"
    /\ call' = [op |-> "get_embedding_dimension"]
    /\ ret' = Value(get_embedding_dimension(obj))
    /\ UNCHANGED <<obj, overflow_checks>>

GetCoordinates ==
    /\ obj.type = "Simplex"
    /\ call' = [op |-> "get_coordinates"]
    /\ ret' = Value(get_coordinates(obj))
    /\ UNCHANGED <<obj, overflow_checks>>

GetNumberOfElements(dimension) ==
    /\ obj.type = "Simplex"
    /\ call' = [op |-> "get_number_of_elements", dimension |-> dimension]
    /\ ret' = Value(get_number_of_elements(obj, dimension))
    /\ UNCHANGED <<obj, overflow_checks>>

GetConnectivity(target_dim, element_dim, element_index) ==
    /\ obj.type = "Simplex"
    /\ call' = [op |-> "get_connectivity", target_dim |-> target_dim,
                element_dim |-> element_dim, element_index |-> element_index]
    /\ ret' = get_connectivity(obj, target_dim, element_dim, element_index)
    /\ UNCHANGED <<obj, overflow_checks>>

InitSimplex ==
    /\ obj = NoObject
    /\ call = [op |-> "none"]
    /\ ret = Unit
    /\ overflow_checks \in BOOLEAN

NextSimplex ==
    \/ \E dim \in 0..MaxDim, embed_dim \in 0..MaxEmbed,
          npoints \in 0..((MaxDim + 1) * MaxEmbed) :
            SimplexNew(dim, embed_dim, npoints)
    \/ GetDimension
    \/ GetEmbeddingDimension
    \/ GetCoordinates
    \/ \E dimension \in 0..MaxQuery : GetNumberOfElements(dimension)
    \/ \E target_dim \in 0..MaxQuery, element_dim \in 0..MaxQuery,
          element_index \in 0..MaxIndex :
            GetConnectivity(target_dim, element_dim, element_index)

SpecSimplex == InitSimplex /\ [][NextSimplex]_vars


(***************************************************************************)
(* A simplex whose map already holds one entry: stride target_dim + 1 and  *)
(* a buffer of rows * stride vertex indices.                               *)
(***************************************************************************)
ConnBuffer(n, stride, rows) == [j \in 1..(stride * rows) |-> (j - 1) % (n + 1)]

SimplexWithEntry(n, e, t, rows) ==
    [type |-> "Simplex",
     dimension |-> n,
     embedding_dimension |-> n,
     points |-> Points(n * n + 1),
     connectivity |-> (<<e, t>> :> <<t + 1, ConnBuffer(n, t + 1, rows)>>)]

InitConnectivity ==
    /\ \E n \in 0..MaxDim : \E e \in 0..n, t \in 0..n, rows \in 1..MaxRows :
          obj = SimplexWithEntry(n, e, t, rows)
    /\ call = [op |-> "none"]
    /\ ret = Unit
    /\ overflow_checks \in BOOLEAN

NextConnectivity ==
    \E target_dim \in 0..MaxQuery, element_dim \in 0..MaxQuery,
       element_index \in 0..MaxIndex :
         GetConnectivity(target_dim, element_dim, element_index)

SpecConnectivity == InitConnectivity /\ [][NextConnectivity]_vars

(***************************************************************************)
(* Properties of the simplex.                                              *)
(***************************************************************************)
\* the binomial coefficient by Pascal's rule
RECURSIVE Choose(_, _)
Choose(n, k) ==
    IF k = 0 THEN 1
    ELSE IF n <= 0 THEN 0
    ELSE Choose(n - 1, k - 1) + Choose(n - 1, k)

\* the increasing (e+1)-combinations of the vertices 0..n
Combinations(n, e) ==
    {c \in [1..(e + 1) -> 0..n] : \A j \in 1..e : c[j] < c[j + 1]}

LexLess(a, b) ==
    \E j \in 1..Len(a) : a[j] < b[j] /\ \A h \in 1..(j - 1) : a[h] = b[h]

LexCombination(n, e, i) ==
    CHOOSE c \in Combinations(n, e) :
        Cardinality({d \in Combinations(n, e) : LexLess(d, c)}) = i

\* C1: Simplex::new returns an error if and only if embed_dim < dim or the
\* buffer does not hold (dim + 1) vertices of width embed_dim.
C1_NewErrorIff ==
    call.op = "Simplex::new" =>
        ((ret.tag = "Err") <=>
            (call.embed_dim < call.dim
             \/ Len(call.pnts) # (call.dim + 1) * call.embed_dim))

\* C2: on a constructed n-simplex get_connectivity(0, e, i) is the i-th
\* increasing (e+1)-combination of 0..n in lexicographic order.
C2_LexConnectivity ==
    (/\ call.op = "get_connectivity"
     /\ call.target_dim = 0
     /\ call.element_dim <= obj.dimension
     /\ call.element_index < Choose(obj.dimension + 1, call.element_dim + 1))
    => ret = Ok(LexCombination(obj.dimension, call.element_dim, call.element_index))

\* C3: a constructed simplex holds an entry for every pair (e, t) with
\* e, t <= n, and get_connectivity never answers "not available".
C3_AllPairsFilled ==
    obj.type = "Simplex" =>
        /\ \A e \in 0..obj.dimension, t \in 0..obj.dimension :
              <<e, t>> \in DOMAIN obj.connectivity
        /\ (call.op = "get_connectivity" => ret # Err(NotAvailableMsg))

\* C4: get_number_of_elements(k) is C(n+1, k+1) for k <= n and 0 for k > n.
C4_NumberOfElements ==
    call.op = "get_number_of_elements" =>
        ret = Value(IF call.dimension <= obj.dimension
                    THEN Choose(obj.dimension + 1, call.dimension + 1)
                    ELSE 0)

C4_Witness ==
    /\ call.op = "get_number_of_elements"
    /\ obj.dimension = 3
    /\ call.dimension = 1
    /\ ret = Value(6)

LimbBase == 10000

RECURSIVE BigFromInt(_)
BigFromInt(n) ==
    IF n = 0 THEN << >> ELSE <<n % LimbBase>> \o BigFromInt(n \div LimbBase)

\* the integer a BigInt stands for (used where it fits the model's integers)
RECURSIVE BigToInt(_)
BigToInt(b) ==
    IF b = << >> THEN 0 ELSE Head(b) + LimbBase * BigToInt(Tail(b))

RECURSIVE BigMulSmallCarry(_, _, _)
BigMulSmallCarry(b, s, carry) ==
    IF b = << >> THEN BigFromInt(carry)
    ELSE LET v == Head(b) * s + carry
         IN <<v % LimbBase>> \o BigMulSmallCarry(Tail(b), s, v \div LimbBase)

BigMulSmall(b, s) == IF s = 0 THEN << >> ELSE BigMulSmallCarry(b, s, 0)

RECURSIVE BigAddCarry(_, _, _)
BigAddCarry(a, b, carry) ==
    IF a = << >> /\ b = << >> THEN BigFromInt(carry)
    ELSE LET x == IF a = << >> THEN 0 ELSE Head(a)
             y == IF b = << >> THEN 0 ELSE Head(b)
             v == x + y + carry
         IN <<v % LimbBase>>
            \o BigAddCarry(IF a = << >> THEN a ELSE Tail(a),
                           IF b = << >> THEN b ELSE Tail(b), v \div LimbBase)

BigAdd(a, b) == BigAddCarry(a, b, 0)

RECURSIVE BigMul(_, _)
BigMul(a, b) ==
    IF a = << >> \/ b = << >> THEN << >>
    ELSE LET rest == BigMul(a, Tail(b))
         IN BigAdd(BigMulSmall(a, Head(b)),
                   IF rest = << >> THEN rest ELSE <<0>> \o rest)

RECURSIVE BigStrip(_)
BigStrip(b) ==
    IF b # << >> /\ b[Len(b)] = 0 THEN BigStrip(SubSeq(b, 1, Len(b) - 1)) ELSE b

\* quotient and remainder of a BigInt by a small positive integer
RECURSIVE BigDivRemFrom(_, _, _, _, _)
BigDivRemFrom(b, s, i, rem, acc) ==
    IF i = 0 THEN [q |-> BigStrip(acc), r |-> rem]
    ELSE LET cur == rem * LimbBase + b[i]
         IN BigDivRemFrom(b, s, i - 1, cur % s, <<cur \div s>> \o acc)

BigDivSmall(b, s) == BigDivRemFrom(b, s, Len(b), 0, << >>).q

\* r / g * (a / (b / g)) with g = gcd(r, b), which is r * a / b exactly
big_multiply_and_divide(r, a, b) == BigDivSmall(BigMulSmall(r, a), b)

RECURSIVE big_binomial_loop(_, _, _, _)
big_binomial_loop(n, k, r, d) ==
    IF d > k THEN r
    ELSE big_binomial_loop(n - 1, k, big_multiply_and_divide(r, n, d), d + 1)

\* num::integer::binomial on BigInt: the arguments are small, the result is not
RECURSIVE big_binomial(_, _)
big_binomial(n, k) ==
    IF k > n THEN << >>
    ELSE IF k > n - k THEN big_binomial(n, n - k)
    ELSE big_binomial_loop(n, k, BigFromInt(1), 1)

(***************************************************************************)
(* i32 arithmetic of the normalizer                                        *)
(***************************************************************************)
I32Max == 2147483647
I32Half == 1073741824
I32Min == (-I32Max) - 1

\* v * 2 in i32: the wrapped product and whether it overflowed
i32_mul2(v) ==
    IF v >= I32Half THEN [overflow |-> TRUE, value |-> (v - I32Half) * 2 + I32Min]
    ELSE IF v < -I32Half
    THEN [overflow |-> TRUE, value |-> ((v + I32Half) * 2 + I32Max) + 1]
    ELSE [overflow |-> FALSE, value |-> v * 2]

\* 2_i32.pow(exp)
RECURSIVE i32_pow2(_)
i32_pow2(exp) ==
    IF exp = 0 THEN [overflow |-> FALSE, value |-> 1]
    ELSE LET p == i32_pow2(exp - 1)
             m == i32_mul2(p.value)
         IN [overflow |-> p.overflow \/ m.overflow, value |-> m.value]

(***************************************************************************)
(* Jacobi                                                                  *)
(***************************************************************************)
\* takes both binomials at index k
coeff_same_index(degree, alpha, beta, k) ==
    BigMul(big_binomial(degree + alpha, k), big_binomial(degree + beta, k))

coeff(degree, alpha, beta, k) ==
    BigMul(big_binomial(degree + alpha, k), big_binomial(degree + beta, degree - k))

\* 1.0 / (p as f64), kept as the fraction 1 / p
normalizer(p) == [num |-> 1, den |-> p]

Jacobi_new(degree, alpha, beta, checks) ==
    IF alpha < -1 \/ beta < -1 THEN None
    ELSE LET coeffs == [j \in 1..(degree + 1) |-> coeff(degree, alpha, beta, j - 1)]
             p == i32_pow2(degree)
         IN IF p.overflow /\ checks THEN Panic
            ELSE Some([type |-> "Jacobi",
                       degree |-> degree,
                       alpha |-> alpha,
                       beta |-> beta,
                       coeffs |-> coeffs,
                       normalizer |-> normalizer(p.value)])

get_degree(self) == self.degree

get_alpha(self) == self.alpha

get_beta(self) == self.beta

\* powf with an integral exponent; 0^0 is 1
RECURSIVE Pow(_, _)
Pow(b, e) == IF e = 0 THEN 1 ELSE b * Pow(b, e - 1)

\* (x - 1)^(degree - deg) * (x + 1)^deg at x = xn / xd, times xd^degree
monome(self, xn, xd, deg) ==
    Pow(xn - xd, self.degree - deg) * Pow(xn + xd, deg)

RECURSIVE evaluate_sum(_, _, _, _)
evaluate_sum(self, xn, xd, k) ==
    IF k > self.degree THEN 0
    ELSE monome(self, xn, xd, k) * BigToInt(self.coeffs[k + 1])
         + evaluate_sum(self, xn, xd, k + 1)

\* the value at x = xn / xd in exact arithmetic, as a fraction
evaluate(self, xn, xd) ==
    [num |-> evaluate_sum(self, xn, xd, 0) * self.normalizer.num,
     den |-> Pow(xd, self.degree) * self.normalizer.den]

\* a behaviour constructs one polynomial and then reads and evaluates it
JacobiNew(degree, alpha, beta) ==
    /\ call.op = "none"
    /\ call' = [op |-> "Jacobi::new", degree |-> degree, alpha |-> alpha,
                beta |-> beta]
    /\ ret' = Jacobi_new(degree, alpha, beta, overflow_checks)
    /\ obj' = IF ret'.tag = "Some" THEN ret'.val ELSE NoObject
    /\ UNCHANGED overflow_checks

GetDegree ==
    /\ obj.type = "Jacobi"
    /\ call' = [op |-> "get_degree"]
    /\ ret' = Value(get_degree(obj))
    /\ UNCHANGED <<obj, overflow_checks>>

GetAlpha ==
    /\ obj.type = "Jacobi"
    /\ call' = [op |-> "get_alpha"]
    /\ ret' = Value(get_alpha(obj))
    /\ UNCHANGED <<obj, overflow_checks>>

GetBeta ==
    /\ obj.type = "Jacobi"
    /\ call' = [op |-> "get_beta"]
    /\ ret' = Value(get_beta(obj))
    /\ UNCHANGED <<obj, overflow_checks>>

\* evaluation is explored on the degrees whose sums fit the model's integers
Evaluate(xn, xd) ==
    /\ obj.type = "Jacobi"
    /\ obj.degree <= MaxDegree
    /\ call' = [op |-> "evaluate", xn |-> xn, xd |-> xd]
    /\ ret' = Value(evaluate(obj, xn, xd))
    /\ UNCHANGED <<obj, overflow_checks>>

\* the degrees around the width of i32
WideDegrees == {30, 31, 32}

Degrees == (0..MaxDegree) \cup WideDegrees

Params == (-2)..MaxParam

InitJacobi ==
    /\ obj = NoObject
    /\ call = [op |-> "none"]
    /\ ret = Unit
    /\ overflow_checks \in BOOLEAN

NextJacobi ==
    \/ \E degree \in Degrees, alpha \in Params, beta \in Params :
          JacobiNew(degree, alpha, beta)
    \/ GetDegree
    \/ GetAlpha
    \/ GetBeta
    \/ \E xn \in (-MaxXNum)..MaxXNum, xd \in 1..MaxXDen : Evaluate(xn, xd)

SpecJacobi == InitJacobi /\ [][NextJacobi]_vars


(***************************************************************************)
(* Properties of the Jacobi polynomial.                                    *)
(***************************************************************************)
Sign(d) == IF d % 2 = 0 THEN 1 ELSE -1

\* p = 2^d, by halving
RECURSIVE IsPowerOfTwo(_, _)
IsPowerOfTwo(p, d) ==
    IF d = 0 THEN p = 1
    ELSE p > 0 /\ p % 2 = 0 /\ IsPowerOfTwo(p \div 2, d - 1)

InvalidParams(alpha, beta) == alpha < -1 \/ beta < -1

\* C6: the polynomial is C(degree+alpha, degree) at x = 1 and
\* (-1)^degree * C(degree+beta, degree) at x = -1.
C6_EndpointValues ==
    call.op = "evaluate" =>
        /\ call.xn = call.xd =>
              ret.val.num = Choose(obj.degree + obj.alpha, obj.degree) * ret.val.den
        /\ call.xn = -call.xd =>
              ret.val.num = Sign(obj.degree) * Choose(obj.degree + obj.beta, obj.degree)
                              * ret.val.den

\* C7: Jacobi::new returns None if and only if alpha < -1 or beta < -1, and
\* otherwise a polynomial whose accessors give back the arguments.
C7_NewNoneIff ==
    call.op = "Jacobi::new" =>
        /\ (ret = None) <=> InvalidParams(call.alpha, call.beta)
        /\ ~InvalidParams(call.alpha, call.beta) =>
              /\ ret.tag = "Some"
              /\ get_degree(ret.val) = call.degree
              /\ get_alpha(ret.val) = call.alpha
              /\ get_beta(ret.val) = call.beta

\* C8: Jacobi(degree, alpha, beta) at x equals (-1)^degree times
\* Jacobi(degree, beta, alpha) at -x (the two fractions have the same
\* denominator), and coefficient k of the one is coefficient degree - k of
\* the other.
C8_Symmetry ==
    obj.type = "Jacobi" =>
        LET swapped == Jacobi_new(obj.degree, obj.beta, obj.alpha, overflow_checks).val
        IN /\ \A k \in 0..obj.degree :
                 obj.coeffs[k + 1] = swapped.coeffs[obj.degree - k + 1]
           /\ call.op = "evaluate" =>
                 LET other == evaluate(swapped, -call.xn, call.xd)
                 IN /\ ret.val.den # 0
                    /\ ret.val.den = other.den
                    /\ ret.val.num = Sign(obj.degree) * other.num

C8_Witness ==
    /\ obj.type = "Jacobi"
    /\ obj.degree = 3 /\ obj.alpha = 2 /\ obj.beta = 1
    /\ call.op = "evaluate"
    /\ call.xn = 1 /\ call.xd = 2
    /\ ret.val.num # 0

\* C9: for every degree the normalizer is 1 / 2^degree: the power never
\* overflows, wraps to a negative value or to zero.
C9_NormalizerPowerOfTwo ==
    (call.op = "Jacobi::new" /\ ~InvalidParams(call.alpha, call.beta)) =>
        /\ ret.tag = "Some"
        /\ ret.val.normalizer.num = 1
        /\ IsPowerOfTwo(ret.val.normalizer.den, call.degree)

(***************************************************************************)
(* IntegrationRule                                                         *)
(***************************************************************************)
get_number_of_points(self) == self.number_of_points

get_weights(self) == self.weights

\* ArrayView::from_shape(n, xs): an error only when the shape needs more
\* elements than the slice has; the view covers the first n elements
from_shape(n, xs) ==
    IF n > Len(xs) THEN Err("OutOfBounds") ELSE Ok(SubSeq(xs, 1, n))

RECURSIVE dot(_, _)
dot(a, b) ==
    IF a = << >> THEN 0 ELSE Head(a) * Head(b) + dot(Tail(a), Tail(b))

integrate(self, values) ==
    LET values_map == from_shape(get_number_of_points(self), values)
        weights_map == from_shape(get_number_of_points(self), get_weights(self))
    IN IF values_map.tag = "Err" THEN Panic
       ELSE IF weights_map.tag = "Err" THEN Panic
       ELSE Value(dot(weights_map.val, values_map.val))

Integrate(values) ==
    /\ obj.type = "IntegrationRule"
    /\ call' = [op |-> "integrate", values |-> values]
    /\ ret' = integrate(obj, values)
    /\ UNCHANGED <<obj, overflow_checks>>

\* a rule keeps len(weights) = number_of_points
InitIntegration ==
    /\ \E n \in 0..MaxRulePoints : \E w \in [1..n -> 1..MaxScalar] :
          obj = [type |-> "IntegrationRule", number_of_points |-> n, weights |-> w]
    /\ call = [op |-> "none"]
    /\ ret = Unit
    /\ overflow_checks \in BOOLEAN

NextIntegration ==
    \E n \in 0..MaxValues : \E values \in [1..n -> 0..MaxScalar] : Integrate(values)

SpecIntegration == InitIntegration /\ [][NextIntegration]_vars

\* C5: integrate(values) fails whenever len(values) differs from the number
\* of points, shorter or longer; it never truncates or pads.
C5_LengthMismatchFails ==
    (call.op = "integrate" /\ Len(call.values) # get_number_of_points(obj))
        => ret = Panic

====
